---- MODULE Spec2Model ----
(***************************************************************************)
(* generate_image.py: one invocation of the script is one process running  *)
(* main().  A process resolves the API key, creates the output directory,  *)
(* opens the reference images and the input image, builds the prompt,      *)
(* calls the generation service once, walks the parts of the response      *)
(* saving every inline image, and exits.                                   *)
(*                                                                         *)
(* The environment of a process is the GEMINI_API_KEY variable, the set of *)
(* paths PIL can open, and what the service answers.  Variables indexed by *)
(* a process are functions over the set of processes of the behaviour:     *)
(* one process under Spec, two processes started in the same environment   *)
(* under SpecPair.                                                         *)
(***************************************************************************)
EXTENDS Integers, Sequences, FiniteSets, TLC

VARIABLES
    args,         \* [process -> the namespace parse_args() returned]
    environ,      \* the value of GEMINI_API_KEY (None when unset)
    files,        \* the paths PILImage.open succeeds on
    service,      \* what client.models.generate_content does when called
    pc,           \* [process -> position in main()]
    api_key,      \* [process -> local api_key]
    parts,        \* [process -> local parts, the content-part list]
    ref_i,        \* [process -> index of the reference image the loop is at]
    prompt,       \* [process -> local prompt]
    calls,        \* [process -> the requests handed to generate_content]
    response,     \* [process -> response.parts]
    part_i,       \* [process -> index of the response part the loop is at]
    image_count,  \* [process -> local image_count]
    trace,        \* [process -> the effects of the process, in program order]
    exit_code     \* [process -> exit status of the process]

vars == <<args, environ, files, service, pc, api_key, parts, ref_i, prompt,
          calls, response, part_i, image_count, trace, exit_code>>

-----------------------------------------------------------------------------
(* Bounds of the model. *)

\* longest list of --reference-image arguments
MaxRefs == 2

\* longest response.parts
MaxParts == 3

-----------------------------------------------------------------------------
(* Python values. *)

\* Python's None, for the optional string arguments and environment variable
None == "<None>"

\* truth value of an optional string: None and "" are false
Truthy(x) == x /= None /\ x /= ""

\* the last index of c in s, 0 when c does not occur (str.rfind, 1-based)
RFind(s, c) ==
    LET hits == {i \in 1..Len(s) : s[i] = c}
    IN  IF hits = {} THEN 0 ELSE CHOOSE i \in hits : \A j \in hits : j <= i

\* one decimal digit as a character
Digit(d) == CASE d = 0 -> "0" [] d = 1 -> "1" [] d = 2 -> "2" [] d = 3 -> "3"
              [] d = 4 -> "4" [] d = 5 -> "5" [] d = 6 -> "6" [] d = 7 -> "7"
              [] d = 8 -> "8" [] d = 9 -> "9"

\* str(n) of a natural number, as a sequence of characters
RECURSIVE IntToStr(_)
IntToStr(n) == IF n < 10 THEN <<Digit(n)>>
               ELSE IntToStr(n \div 10) \o <<Digit(n % 10)>>

-----------------------------------------------------------------------------
(* pathlib.Path over relative, normalised paths; a path is its sequence of *)
(* characters.                                                             *)

\* Path(p).name: what follows the last separator
PathName(p) == SubSeq(p, RFind(p, "/") + 1, Len(p))

\* Path(p).parent: what precedes the last separator, "." when there is none
PathParent(p) == IF RFind(p, "/") = 0 THEN <<".">>
                 ELSE SubSeq(p, 1, RFind(p, "/") - 1)

\* Path(p).suffix: from the last dot of the name, unless the dot is the
\* first or the last character of the name
PathSuffix(p) ==
    LET name == PathName(p)
        i    == RFind(name, ".")
    IN  IF 1 < i /\ i < Len(name) THEN SubSeq(name, i, Len(name)) ELSE <<>>

\* Path(p).stem: the name without its suffix
PathStem(p) ==
    LET name == PathName(p)
        i    == RFind(name, ".")
    IN  IF 1 < i /\ i < Len(name) THEN SubSeq(name, 1, i - 1) ELSE name

\* parent / name
PathJoin(parent, name) == IF parent = <<".">> THEN name
                          ELSE parent \o <<"/">> \o name

-----------------------------------------------------------------------------
(* The functions of the script. *)

\* get_api_key: the argument first, then the environment
get_api_key(provided_key, env) == IF Truthy(provided_key) THEN provided_key ELSE env

\* variant of HasKey: the test written "if api_key is None", which lets an
\* empty key through
HasKeyNotNone(key) == key /= None

\* the test main() makes of the resolved key: "if not api_key" fails
HasKey(key) == Truthy(key)

\* variant of CanOpen: the failure of PILImage.open is swallowed and the
\* path is appended all the same
CanOpenAlways(path, fs) == TRUE

\* whether PILImage.open(path) returns: the path names a decodable image
CanOpen(path, fs) == path \in fs

\* variant of AddPart: parts.insert(0, p)
AddPartInFront(ps, p) == <<p>> \o ps

\* parts.append(p)
AddPart(ps, p) == Append(ps, p)

\* variant of NoImageGenerated: the test written "if image_count < 0"
NoImageGeneratedNever(count) == count < 0

\* the test after the loop over the response: "if image_count == 0"
NoImageGenerated(count) == count = 0

\* variant of HandlerCatchesSystemExit: the handler written as a bare
\* "except:", which catches SystemExit too
HandlerCatchesBaseException == TRUE

\* whether "except Exception" catches the SystemExit that sys.exit raises
\* inside the try block: SystemExit derives from BaseException only
HandlerCatchesSystemExit == FALSE

\* the four lines main() prints when no key is found
NoKeyMessage == << <<"Error: No API key provided.">>,
                   <<"Please either:">>,
                   <<"  1. Provide --api-key argument">>,
                   <<"  2. Set GEMINI_API_KEY environment variable">> >>

\* the line main() prints when the response held no image
NoImageMessage == <<"Error: No image was generated in the response.">>

\* the line the exception handler of main() prints
HandlerMessage == <<"Error generating image">>

\* the instruction put before the prompt for a reference type
ReferencePrefix(reference_type) ==
    CASE reference_type = "STYLE" ->
           "Using the style from the reference image(s), create: "
      [] reference_type = "CHARACTER" ->
           "Maintaining the character/person consistency from the reference image(s), create: "
      [] reference_type = "SUBJECT" ->
           "Using the subject/composition from the reference image(s), create: "

\* variant of UsesReferencePrompt: the test written "if args.reference_image"
UsesReferencePromptIgnoringInput(a) == a.reference_image /= <<>>

\* whether main() rewrites the prompt: reference images and no input image
UsesReferencePrompt(a) == a.reference_image /= <<>> /\ ~Truthy(a.input_image)

\* the prompt main() appends to parts
BuildPromptText(a) ==
    IF UsesReferencePrompt(a)
    THEN ReferencePrefix(a.reference_type) \o a.prompt
    ELSE a.prompt

\* the line main() prints before the call
ModeMessage(a) ==
    IF Truthy(a.input_image) THEN <<"Editing image with resolution", a.resolution>>
    ELSE IF a.reference_image /= <<>>
         THEN <<"Generating with reference image(s), resolution",
                Len(a.reference_image), a.resolution>>
         ELSE <<"Generating image with resolution", a.resolution>>

\* variant of GenConfig: the aspect ratio is passed on in image_config
GenConfigWithAspect(a) ==
    [response_modalities |-> <<"TEXT", "IMAGE">>,
     image_config |-> [image_size |-> a.resolution,
                       aspect_ratio |-> a.aspect_ratio]]

\* types.GenerateContentConfig(...) as main() builds it
GenConfig(a) == [response_modalities |-> <<"TEXT", "IMAGE">>,
                 image_config |-> [image_size |-> a.resolution]]

\* the arguments of client.models.generate_content
Request(a, contents) == [model    |-> "gemini-3-pro-image-preview",
                         contents |-> contents,
                         config   |-> GenConfig(a)]

\* whether the file name of a saved image gets a number
UsesNumberedName(num_images, count) == num_images > 1 /\ count > 0

\* the path an inline image is saved to, after count images were saved
SavePath(filename, num_images, count) ==
    IF UsesNumberedName(num_images, count)
    THEN PathJoin(PathParent(filename),
                  PathStem(filename) \o <<"-">> \o IntToStr(count + 1)
                      \o PathSuffix(filename))
    ELSE filename

-----------------------------------------------------------------------------
(* Effects, as they are appended to the trace of a process. *)

PrintEffect(stream, msg) == <<"print", stream, msg>>
MkdirEffect(path)        == <<"mkdir", path>>
OpenEffect(path)         == <<"open", path>>
GenerateEffect           == <<"generate">>
SaveEffect(path)         == <<"save", path>>

\* the effects of one kind in a trace, in order
Effects(t, op) == SelectSeq(t, LAMBDA e : e[1] = op)

\* the paths a process saved an image to, in order
SavedPaths(r) == [i \in 1..Len(Effects(trace[r], "save")) |->
                     Effects(trace[r], "save")[i][2]]

\* the lines a process printed to a stream, in order
Printed(r, stream) ==
    LET ps == SelectSeq(trace[r], LAMBDA e : e[1] = "print" /\ e[2] = stream)
    IN  [i \in 1..Len(ps) |-> ps[i][3]]

\* content parts: an opened image, or the prompt text
ImagePart(path) == <<"image", path>>
TextPart(text)  == <<"text", text>>

-----------------------------------------------------------------------------
(* The command lines and environments the model starts from. *)

\* what parse_args() returns when only --prompt, --filename and --api-key
\* are given
DefaultArgs == [prompt          |-> "a cat",
                filename        |-> <<"o", "u", "t", ".", "p", "n", "g">>,
                input_image     |-> None,
                reference_image |-> <<>>,
                reference_type  |-> "STYLE",
                aspect_ratio    |-> None,
                resolution      |-> "2K",
                num_images      |-> 1,
                api_key         |-> "k"]

ReferenceTypes == {"STYLE", "CHARACTER", "SUBJECT"}
AspectRatios   == {"1:1", "4:3", "3:4", "16:9", "9:16"}
Resolutions    == {"1K", "2K", "4K"}

\* values of --num-images: type=int accepts every integer
NumImages == {-1, 0, 1, 2, 4, 5}

Prompts     == {"a cat", "a dog"}
ApiKeys     == {None, "", "k"}
EnvKeys     == {None, "", "e"}
RefPaths    == {"r1.jpg", "r2.png"}
InputPaths  == {None, "", "in.png"}
AllPaths    == RefPaths \cup {"in.png"}
Filenames   == { <<"o", "u", "t", ".", "p", "n", "g">>,
                 <<"d", "/", "a", ".", "b", ".", "p", "n", "g">>,
                 <<"o", "u", "t">> }

\* sequences over S of length lo..hi
SeqsOf(S, lo, hi) == UNION {[1..n -> S] : n \in lo..hi}

\* args.reference_image: None (modelled as the empty list, the two are alike
\* to every test main() makes) or the paths in command-line order
ReferenceLists == SeqsOf(RefPaths, 0, MaxRefs)

\* a part of a response: text, an inline image that decodes and saves, an
\* inline image PIL raises on, or a part with neither text nor inline data
TextParts     == {[kind |-> "text", text |-> t] : t \in {"t1", "t2"}}
GoodImagePart == [kind |-> "image", ok |-> TRUE]
BadImagePart  == [kind |-> "image", ok |-> FALSE]
OtherPart     == [kind |-> "other"]
ResponseParts == TextParts \cup {GoodImagePart, BadImagePart, OtherPart}

\* what the service does: raise, or answer with a list of parts
ServiceError   == [ok |-> FALSE]
ServiceAnswers == {[ok |-> TRUE, parts |-> ps] : ps \in SeqsOf(ResponseParts, 0, MaxParts)}
Services       == {ServiceError} \cup ServiceAnswers

\* command lines and environments that vary the credentials
KeyConfigs ==
    {[args    |-> [DefaultArgs EXCEPT !.api_key = k, !.reference_image = refs,
                                      !.input_image = inp],
      environ |-> e, files |-> AllPaths,
      service |-> [ok |-> TRUE, parts |-> <<GoodImagePart>>]] :
        k \in ApiKeys, e \in EnvKeys, refs \in {<<>>, <<"r1.jpg">>},
        inp \in {None, "in.png"}}

\* command lines and environments that vary the request and the files
AssemblyConfigs ==
    {[args    |-> [DefaultArgs EXCEPT !.prompt = p, !.reference_image = refs,
                                      !.input_image = inp, !.reference_type = rt,
                                      !.resolution = res],
      environ |-> None, files |-> fs, service |-> sv] :
        p \in Prompts, refs \in ReferenceLists, inp \in InputPaths,
        rt \in ReferenceTypes, res \in Resolutions, fs \in SUBSET AllPaths,
        sv \in {ServiceError, [ok |-> TRUE, parts |-> <<GoodImagePart>>]}}

\* command lines and environments that vary the output and the response
OutputConfigs ==
    {[args    |-> [DefaultArgs EXCEPT !.filename = f, !.num_images = n,
                                      !.aspect_ratio = ar],
      environ |-> None, files |-> AllPaths, service |-> sv] :
        f \in Filenames, n \in NumImages, ar \in {None} \cup AspectRatios,
        sv \in Services}

Configs == KeyConfigs \cup AssemblyConfigs \cup OutputConfigs

\* the state of the processes in procs before main() runs
Start(procs) ==
    /\ pc          = [r \in procs |-> "start"]
    /\ api_key     = [r \in procs |-> None]
    /\ parts       = [r \in procs |-> <<>>]
    /\ ref_i       = [r \in procs |-> 1]
    /\ prompt      = [r \in procs |-> None]
    /\ calls       = [r \in procs |-> <<>>]
    /\ response    = [r \in procs |-> <<>>]
    /\ part_i      = [r \in procs |-> 1]
    /\ image_count = [r \in procs |-> 0]
    /\ trace       = [r \in procs |-> <<>>]
    /\ exit_code   = [r \in procs |-> 0]

\* command lines and environments for two invocations side by side
PairConfigs ==
    {[args    |-> [DefaultArgs EXCEPT !.filename = f, !.reference_image = refs,
                                      !.input_image = inp],
      environ |-> None, files |-> AllPaths, service |-> sv] :
        f \in {<<"o", "u", "t", ".", "p", "n", "g">>, <<"o", "u", "t">>},
        refs \in {<<>>, <<"r1.jpg">>}, inp \in {None, "in.png"},
        sv \in {ServiceError} \cup
               {[ok |-> TRUE, parts |-> ps] :
                  ps \in SeqsOf({[kind |-> "text", text |-> "t1"],
                                 GoodImagePart, BadImagePart}, 0, 2)}}

InitPair ==
    /\ \E c \in PairConfigs :
          /\ \E ar1, ar2 \in {None, "16:9"} :
             \E n1, n2 \in {1, 2, 5} :
                args = [r \in {1, 2} |->
                          IF r = 1
                          THEN [c.args EXCEPT !.aspect_ratio = ar1, !.num_images = n1]
                          ELSE [c.args EXCEPT !.aspect_ratio = ar2, !.num_images = n2]]
          /\ environ = c.environ
          /\ files   = c.files
          /\ service = c.service
    /\ Start({1, 2})

Init ==
    /\ \E c \in Configs :
          /\ args    = [r \in {1} |-> c.args]
          /\ environ = c.environ
          /\ files   = c.files
          /\ service = c.service
    /\ Start({1})

-----------------------------------------------------------------------------
(* main(), one action per step. *)

\* resolve the API key; without one print the remediation and exit 1
CheckKey(r) ==
    /\ pc[r] = "start"
    /\ api_key' = [api_key EXCEPT ![r] = get_api_key(args[r].api_key, environ)]
    /\ IF ~HasKey(api_key'[r])
       THEN /\ trace' = [trace EXCEPT ![r] =
                           @ \o [i \in 1..Len(NoKeyMessage) |->
                                    PrintEffect("stderr", NoKeyMessage[i])]]
            /\ exit_code' = [exit_code EXCEPT ![r] = 1]
            /\ pc' = [pc EXCEPT ![r] = "done"]
       ELSE /\ pc' = [pc EXCEPT ![r] = "setup"]
            /\ UNCHANGED <<trace, exit_code>>
    /\ UNCHANGED <<args, environ, files, service, parts, ref_i, prompt, calls,
                   response, part_i, image_count>>

\* the imports and genai.Client(api_key=api_key), which have no effect the
\* model records; then create the directory of the output path and start the
\* part list
SetupOutput(r) ==
    /\ pc[r] = "setup"
    /\ trace' = [trace EXCEPT ![r] =
                   Append(@, MkdirEffect(PathParent(args[r].filename)))]
    /\ parts' = [parts EXCEPT ![r] = <<>>]
    /\ ref_i' = [ref_i EXCEPT ![r] = 1]
    /\ pc' = [pc EXCEPT ![r] =
                IF args[r].reference_image /= <<>> THEN "refs" ELSE "input"]
    /\ UNCHANGED <<args, environ, files, service, api_key, prompt, calls,
                   response, part_i, image_count, exit_code>>

\* one turn of the loop over args.reference_image
LoadReference(r) ==
    /\ pc[r] = "refs"
    /\ LET ref_path == args[r].reference_image[ref_i[r]]
           opened   == Append(trace[r], OpenEffect(ref_path))
       IN  IF CanOpen(ref_path, files)
           THEN /\ parts' = [parts EXCEPT ![r] = AddPart(@, ImagePart(ref_path))]
                /\ trace' = [trace EXCEPT ![r] =
                       Append(opened, PrintEffect("stdout",
                           <<"Added reference image", args[r].reference_type, ref_path>>))]
                /\ ref_i' = [ref_i EXCEPT ![r] = @ + 1]
                /\ pc' = [pc EXCEPT ![r] =
                       IF ref_i[r] = Len(args[r].reference_image)
                       THEN "input" ELSE "refs"]
                /\ UNCHANGED exit_code
           ELSE /\ trace' = [trace EXCEPT ![r] =
                       Append(opened, PrintEffect("stderr",
                           <<"Error loading reference image", ref_path>>))]
                /\ exit_code' = [exit_code EXCEPT ![r] = 1]
                /\ pc' = [pc EXCEPT ![r] = "done"]
                /\ UNCHANGED <<parts, ref_i>>
    /\ UNCHANGED <<args, environ, files, service, api_key, prompt, calls,
                   response, part_i, image_count>>

\* open the input image when one is given
LoadInput(r) ==
    /\ pc[r] = "input"
    /\ LET opened == Append(trace[r], OpenEffect(args[r].input_image))
       IN  IF ~Truthy(args[r].input_image)
           THEN /\ pc' = [pc EXCEPT ![r] = "prompt"]
                /\ UNCHANGED <<parts, trace, exit_code>>
           ELSE IF CanOpen(args[r].input_image, files)
           THEN /\ parts' = [parts EXCEPT ![r] =
                       AddPart(@, ImagePart(args[r].input_image))]
                /\ trace' = [trace EXCEPT ![r] =
                       Append(opened, PrintEffect("stdout",
                           <<"Added input image for editing", args[r].input_image>>))]
                /\ pc' = [pc EXCEPT ![r] = "prompt"]
                /\ UNCHANGED exit_code
           ELSE /\ trace' = [trace EXCEPT ![r] =
                       Append(opened, PrintEffect("stderr",
                           <<"Error loading input image">>))]
                /\ exit_code' = [exit_code EXCEPT ![r] = 1]
                /\ pc' = [pc EXCEPT ![r] = "done"]
                /\ UNCHANGED parts
    /\ UNCHANGED <<args, environ, files, service, api_key, ref_i, prompt, calls,
                   response, part_i, image_count>>

\* build the prompt, append it to the parts and announce the mode
BuildPrompt(r) ==
    /\ pc[r] = "prompt"
    /\ prompt' = [prompt EXCEPT ![r] = BuildPromptText(args[r])]
    /\ parts' = [parts EXCEPT ![r] = AddPart(@, TextPart(prompt'[r]))]
    /\ trace' = [trace EXCEPT ![r] =
                   Append(@, PrintEffect("stdout", ModeMessage(args[r])))]
    /\ pc' = [pc EXCEPT ![r] = "call"]
    /\ UNCHANGED <<args, environ, files, service, api_key, ref_i, calls,
                   response, part_i, image_count, exit_code>>

\* variant of CallFailed: the call is made again after a failure
CallRetried(r) == pc' = [pc EXCEPT ![r] = "call"]

\* generate_content raised inside the try block: control passes to the
\* handler, the call is not made again
CallFailed(r) == pc' = [pc EXCEPT ![r] = "except"]

\* client.models.generate_content: it raises, or returns the response
Generate(r) ==
    /\ pc[r] = "call"
    /\ calls' = [calls EXCEPT ![r] = Append(@, Request(args[r], parts[r]))]
    /\ trace' = [trace EXCEPT ![r] = Append(@, GenerateEffect)]
    /\ IF service.ok
       THEN /\ response' = [response EXCEPT ![r] = service.parts]
            /\ part_i' = [part_i EXCEPT ![r] = 1]
            /\ image_count' = [image_count EXCEPT ![r] = 0]
            /\ pc' = [pc EXCEPT ![r] =
                        IF service.parts = <<>> THEN "finish" ELSE "parts"]
       ELSE /\ CallFailed(r)
            /\ UNCHANGED <<response, part_i, image_count>>
    /\ UNCHANGED <<args, environ, files, service, api_key, parts, ref_i, prompt,
                   exit_code>>

\* one turn of the loop over response.parts
ProcessPart(r) ==
    /\ pc[r] = "parts"
    /\ LET part      == response[r][part_i[r]]
           save_path == SavePath(args[r].filename, args[r].num_images,
                                 image_count[r])
           after     == IF part_i[r] = Len(response[r]) THEN "finish" ELSE "parts"
       IN  CASE part.kind = "text" ->
                  /\ trace' = [trace EXCEPT ![r] =
                         Append(@, PrintEffect("stdout",
                                       <<"Model response", part.text>>))]
                  /\ pc' = [pc EXCEPT ![r] = after]
                  /\ UNCHANGED image_count
             [] part.kind = "image" /\ part.ok ->
                  /\ trace' = [trace EXCEPT ![r] =
                         @ \o << SaveEffect(save_path),
                                 PrintEffect("stdout", <<"Image saved", save_path>>) >>]
                  /\ image_count' = [image_count EXCEPT ![r] = @ + 1]
                  /\ pc' = [pc EXCEPT ![r] = after]
             [] part.kind = "image" /\ ~part.ok ->
                  /\ pc' = [pc EXCEPT ![r] = "except"]
                  /\ UNCHANGED <<trace, image_count>>
             [] part.kind = "other" ->
                  /\ pc' = [pc EXCEPT ![r] = after]
                  /\ UNCHANGED <<trace, image_count>>
    /\ part_i' = [part_i EXCEPT ![r] = @ + 1]
    /\ UNCHANGED <<args, environ, files, service, api_key, parts, ref_i, prompt,
                   calls, response, exit_code>>

\* after the loop: no image is an error, otherwise report the total
Finish(r) ==
    /\ pc[r] = "finish"
    /\ IF NoImageGenerated(image_count[r])
       THEN /\ trace' = [trace EXCEPT ![r] =
                   Append(@, PrintEffect("stderr", NoImageMessage))]
            /\ IF HandlerCatchesSystemExit
               THEN /\ pc' = [pc EXCEPT ![r] = "except"]
                    /\ UNCHANGED exit_code
               ELSE /\ exit_code' = [exit_code EXCEPT ![r] = 1]
                    /\ pc' = [pc EXCEPT ![r] = "done"]
       ELSE /\ trace' = [trace EXCEPT ![r] =
                   Append(@, PrintEffect("stdout",
                                 <<"Total images saved", image_count[r]>>))]
            /\ pc' = [pc EXCEPT ![r] = "done"]
            /\ UNCHANGED exit_code
    /\ UNCHANGED <<args, environ, files, service, api_key, parts, ref_i, prompt,
                   calls, response, part_i, image_count>>

\* except Exception: report and exit 1
HandleException(r) ==
    /\ pc[r] = "except"
    /\ trace'     = [trace EXCEPT ![r] = Append(@, PrintEffect("stderr", HandlerMessage))]
    /\ exit_code' = [exit_code EXCEPT ![r] = 1]
    /\ pc'        = [pc EXCEPT ![r] = "done"]
    /\ UNCHANGED <<args, environ, files, service, api_key, parts, ref_i, prompt,
                   calls, response, part_i, image_count>>

\* the processes of the behaviour
Procs == DOMAIN pc

Next ==
    \/ \E r \in Procs : CheckKey(r)
    \/ \E r \in Procs : SetupOutput(r)
    \/ \E r \in Procs : LoadReference(r)
    \/ \E r \in Procs : LoadInput(r)
    \/ \E r \in Procs : BuildPrompt(r)
    \/ \E r \in Procs : Generate(r)
    \/ \E r \in Procs : ProcessPart(r)
    \/ \E r \in Procs : Finish(r)
    \/ \E r \in Procs : HandleException(r)

\* one invocation of the script
Spec == Init /\ [][Next]_vars

\* two invocations in the same environment whose command lines differ at
\* most in --aspect-ratio and --num-images; each has its own trace and exit
\* status
SpecPair == InitPair /\ [][Next]_vars

-----------------------------------------------------------------------------
(* Vocabulary of the properties. *)

\* the process has terminated
Done(r) == pc[r] = "done"

\* the process made the generation call
Called(r) == calls[r] /= <<>>

\* neither --api-key nor GEMINI_API_KEY yields a key
NoKey(r) == args[r].api_key \in {None, ""} /\ environ \in {None, ""}

\* an input image is supplied: --input-image names a path
InputGiven(r) == args[r].input_image \notin {None, ""}

\* the images the command line supplies: the references, then the input
SuppliedImages(r) ==
    args[r].reference_image \o
        (IF InputGiven(r) THEN <<args[r].input_image>> ELSE <<>>)

\* some supplied image cannot be opened
LoadFails(r) ==
    \E i \in 1..Len(SuppliedImages(r)) : SuppliedImages(r)[i] \notin files

\* the positions of the effects of one kind in the trace of a process
Positions(r, op) == {i \in 1..Len(trace[r]) : trace[r][i][1] = op}

\* the texts of the "Model response" lines a process printed, in order
ModelResponses(r) ==
    LET ps == SelectSeq(trace[r], LAMBDA e : e[1] = "print" /\ e[2] = "stdout"
                                              /\ e[3][1] = "Model response")
    IN  [i \in 1..Len(ps) |-> ps[i][3][2]]

\* the texts of the text parts of a response, in order
ResponseTexts(ps) ==
    LET ts == SelectSeq(ps, LAMBDA q : q.kind = "text")
    IN  [i \in 1..Len(ts) |-> ts[i].text]

\* the inline-image parts of a response
ImageParts(ps) == SelectSeq(ps, LAMBDA q : q.kind = "image")

\* some inline image of the response cannot be decoded or saved
SomeImageFails(ps) == \E i \in 1..Len(ps) : ps[i].kind = "image" /\ ~ps[i].ok

-----------------------------------------------------------------------------
(* C1.  When --api-key is absent or empty and GEMINI_API_KEY is unset or   *)
(* empty, the process prints the remediation message to standard error and *)
(* exits 1, and it has done nothing else: no image opened, no directory    *)
(* created, no generation call.                                            *)
C1_NoKeyExitsFirst ==
    \A r \in Procs :
        NoKey(r) =>
            /\ pc[r] \in {"start", "done"}
            /\ calls[r] = <<>>
            /\ Positions(r, "open") = {}
            /\ Positions(r, "mkdir") = {}
            /\ Positions(r, "generate") = {}
            /\ Positions(r, "save") = {}
            /\ Done(r) => /\ exit_code[r] = 1
                          /\ Printed(r, "stderr") = NoKeyMessage
                          /\ Len(trace[r]) = Len(NoKeyMessage)

C1_Witness ==
    \E r \in Procs :
        /\ NoKey(r) /\ Done(r)
        /\ args[r].api_key = "" /\ environ = ""
        /\ args[r].reference_image /= <<>> /\ InputGiven(r)

-----------------------------------------------------------------------------
(* C2.  The generation call is made only after every supplied reference    *)
(* image and the input image were opened successfully; a process one of    *)
(* whose images fails to load exits 1 without making the call.             *)
C2_NoCallAfterLoadFailure ==
    \A r \in Procs :
        /\ Positions(r, "generate") /= {} =>
              /\ ~LoadFails(r)
              /\ Cardinality(Positions(r, "open")) = Len(SuppliedImages(r))
              /\ \A i \in Positions(r, "open"), j \in Positions(r, "generate") : i < j
        /\ LoadFails(r) =>
              /\ calls[r] = <<>>
              /\ Done(r) => exit_code[r] = 1

C2_Witness ==
    \E r \in Procs :
        /\ ~NoKey(r) /\ Done(r) /\ exit_code[r] = 1
        /\ Len(args[r].reference_image) = 2
        /\ args[r].reference_image[1] \in files
        /\ args[r].reference_image[2] \notin files
        /\ Cardinality(Positions(r, "open")) = 2

-----------------------------------------------------------------------------
\* the file name the n-th image of a response is expected under
NumberedName(filename, n) ==
    IF n = 1 THEN filename
    ELSE PathJoin(PathParent(filename),
                  PathStem(filename) \o <<"-">> \o IntToStr(n) \o PathSuffix(filename))

(* C3.  When the response holds k >= 2 inline images and every save        *)
(* succeeds, the images are saved to k distinct paths: the first to the    *)
(* requested file name and the n-th to the file name with -n before the    *)
(* extension, for every value of --num-images in 1..4, the default 1       *)
(* included.                                                               *)
C3_DistinctNumberedPaths ==
    \A r \in Procs :
        (/\ Done(r) /\ Called(r) /\ service.ok
         /\ args[r].num_images \in 1..4
         /\ Len(ImageParts(response[r])) >= 2
         /\ ~SomeImageFails(response[r]))
        => /\ Len(SavedPaths(r)) = Len(ImageParts(response[r]))
           /\ \A n \in 1..Len(SavedPaths(r)) :
                 SavedPaths(r)[n] = NumberedName(args[r].filename, n)
           /\ \A m, n \in 1..Len(SavedPaths(r)) :
                 m /= n => SavedPaths(r)[m] /= SavedPaths(r)[n]

-----------------------------------------------------------------------------
(* C4.  A terminated process has exit status 0 or 1, and the status is 0   *)
(* exactly when at least one image was saved.                              *)
C4_ExitZeroIffSaved ==
    \A r \in Procs :
        Done(r) => /\ exit_code[r] \in {0, 1}
                   /\ exit_code[r] = 0 <=> SavedPaths(r) /= <<>>

(* C4, amended.  A terminated process has exit status 0 or 1; the status   *)
(* is 0 exactly when at least one image was saved and no inline image of   *)
(* the response failed to decode or save.  A process that exits 1 has      *)
(* saved an image only when a later inline image failed.                   *)
C4_ExitZeroIffSavedAndNoFailure ==
    \A r \in Procs :
        Done(r) =>
            /\ exit_code[r] \in {0, 1}
            /\ exit_code[r] = 0 <=>
                  (SavedPaths(r) /= <<>> /\ ~SomeImageFails(response[r]))
            /\ (exit_code[r] = 1 /\ SavedPaths(r) /= <<>>) =>
                  \E i, j \in 1..Len(response[r]) :
                      /\ i < j
                      /\ response[r][i] = GoodImagePart
                      /\ response[r][j] = BadImagePart

C4_Witness ==
    \E r \in Procs :
        /\ Done(r) /\ exit_code[r] = 1
        /\ Len(SavedPaths(r)) = 1
        /\ response[r] = <<GoodImagePart, BadImagePart>>

-----------------------------------------------------------------------------
\* the prefix expected for each reference type
ExpectedPrefix ==
    [t \in ReferenceTypes |->
        IF t = "STYLE"
        THEN "Using the style from the reference image(s), create: "
        ELSE IF t = "CHARACTER"
        THEN "Maintaining the character/person consistency from the reference image(s), create: "
        ELSE "Using the subject/composition from the reference image(s), create: "]

\* the text of the prompt a request carries: every text part of its contents
SubmittedTexts(req) ==
    LET ts == SelectSeq(req.contents, LAMBDA q : q[1] = "text")
    IN  [i \in 1..Len(ts) |-> ts[i][2]]

(* C5.  The prompt text submitted to the service is the fixed prefix of    *)
(* the reference type followed by the user prompt when reference images    *)
(* are given and no input image is; in every other case it is the user     *)
(* prompt unmodified.                                                      *)
C5_SubmittedPrompt ==
    \A r \in Procs :
        Called(r) =>
            SubmittedTexts(calls[r][1]) =
                << IF args[r].reference_image /= <<>> /\ ~InputGiven(r)
                   THEN ExpectedPrefix[args[r].reference_type] \o args[r].prompt
                   ELSE args[r].prompt >>

C5_Witness ==
    \E r \in Procs :
        /\ Called(r)
        /\ args[r].reference_image /= <<>> /\ ~InputGiven(r)
        /\ args[r].reference_type = "CHARACTER"
        /\ args[r].prompt = "a dog"

-----------------------------------------------------------------------------
(* C6.  After a successful call whose response holds no inline image, the  *)
(* process has printed every text part in response order, then the         *)
(* "no image" error, once and as its last output, and exits 1; the handler *)
(* of the try block has reported nothing and no file was written.          *)
C6_TextThenNoImageError ==
    \A r \in Procs :
        (Done(r) /\ Called(r) /\ service.ok /\ ImageParts(response[r]) = <<>>)
        => /\ ModelResponses(r) = ResponseTexts(response[r])
           /\ Printed(r, "stderr") = <<NoImageMessage>>
           /\ trace[r][Len(trace[r])] = PrintEffect("stderr", NoImageMessage)
           /\ exit_code[r] = 1
           /\ SavedPaths(r) = <<>>

C6_Witness ==
    \E r \in Procs :
        /\ Done(r) /\ Called(r) /\ service.ok
        /\ ResponseTexts(response[r]) = <<"t2", "t1">>
        /\ ImageParts(response[r]) = <<>>

-----------------------------------------------------------------------------
(* C7.  The generation call is made at most once, and a process whose call *)
(* raised reports the error, exits 1 and has written no image.             *)
C7_OneCallNoRetry ==
    \A r \in Procs :
        /\ Len(calls[r]) <= 1
        /\ Cardinality(Positions(r, "generate")) = Len(calls[r])
        /\ (Called(r) /\ ~service.ok) =>
              /\ SavedPaths(r) = <<>>
              /\ pc[r] \in {"except", "done"}
              /\ Done(r) => /\ exit_code[r] = 1
                            /\ Printed(r, "stderr") = <<HandlerMessage>>

C7_Witness ==
    \E r \in Procs : Done(r) /\ Called(r) /\ ~service.ok /\ exit_code[r] = 1

-----------------------------------------------------------------------------
(* C8.  A --num-images value outside 1..4 is rejected: no process with     *)
(* such a value makes the generation call or saves a file.                 *)
C8_NumImagesRangeChecked ==
    \A r \in Procs :
        args[r].num_images \notin 1..4 =>
            calls[r] = <<>> /\ SavedPaths(r) = <<>>

-----------------------------------------------------------------------------
(* C9.  The content parts of the call are the reference images in          *)
(* command-line order, then the input image if one is supplied, then the   *)
(* prompt text as the single last element.                                 *)
C9_ContentParts ==
    \A r \in Procs :
        Called(r) =>
            LET contents == calls[r][1].contents
                refs     == args[r].reference_image
                n        == Len(refs)
                k        == IF InputGiven(r) THEN 1 ELSE 0
            IN  /\ Len(contents) = n + k + 1
                /\ \A i \in 1..n : contents[i] = <<"image", refs[i]>>
                /\ InputGiven(r) => contents[n + 1] = <<"image", args[r].input_image>>
                /\ contents[n + k + 1] = <<"text", prompt[r]>>
                /\ \A i \in 1..(n + k) : contents[i][1] /= "text"

C9_Witness ==
    \E r \in Procs :
        /\ Called(r)
        /\ args[r].reference_image = <<"r2.png", "r1.jpg">>
        /\ InputGiven(r)
        /\ Len(calls[r][1].contents) = 4

-----------------------------------------------------------------------------
\* two command lines that differ at most in --aspect-ratio and --num-images
SameButAspectAndCount(a, b) ==
    [a EXCEPT !.aspect_ratio = None, !.num_images = 1]
        = [b EXCEPT !.aspect_ratio = None, !.num_images = 1]

====
